---- MODULE Spec2Model ----
(***************************************************************************)
(* A model of the plugin loader of src/src/lib.rs: load_plugins and        *)
(* PluginManager::load_single_plugin (the load sequence and the raw        *)
(* ownership transfer of the clap::App schema through `_plugin_create`),   *)
(* PluginManager::build, PluginManager::process_options, and the drop of   *)
(* the PluginManager (fields are dropped in declaration order: `plugins`,  *)
(* then `loaded_libraries`).                                               *)
(*                                                                         *)
(* A panic (`expect`, `unwrap`) is modelled as what it is: it appends a    *)
(* record to `panics` and starts unwinding; it is not a returned Err.      *)
(***************************************************************************)
EXTENDS Naturals, Sequences, FiniteSets, Bags, TLC

VARIABLES
    paths,             \* load_plugins: the `paths` argument
    initApp,           \* load_plugins: the `app` argument as the caller passed it
    pc,                \* position of the single thread of control
    i,                 \* load_plugins: 1-based position of the `for path in paths` loop
    callerApp,         \* the schema slot of the caller of load_plugins
    hostApp,           \* the owned `app` of load_plugins / load_single_plugin
    boxes,             \* the two heap boxes of one load: hostBox (line 38), modBox (line 110)
    hostPtr,           \* the raw pointer the binding `app` of lines 38-45 designates
    boxed_raw,         \* the raw plugin pointer returned by the constructor (line 39)
    plugins,           \* PluginManager.plugins
    loaded_libraries,  \* PluginManager.loaded_libraries
    opens,             \* history: the files handed to Library::new, in order
    calls,             \* history: the files whose `_plugin_create` was invoked, in order
    entryApp,          \* history: the schema passed into the current load_single_plugin
    modReturned,       \* history: the schema the last entry point returned
    dropLog,           \* history: plugins destroyed and libraries released, in order
    panics,            \* the panics raised so far
    loadResult,        \* what load_plugins gave its caller: "none", "Ok" or "panic"
    lastBuild,         \* the value of the most recent build() call
    heldSpecs,         \* bag of the WorkerSpec boxes the caller holds
    heldWorkers,       \* bag of the Worker boxes the caller holds
    worker,            \* state of the Worker the caller drives (the first it still holds)
    j,                 \* process_options: 1-based position of the iterator
    optCalls,          \* history: the process_option calls of the current process_options
    dispatchResult,    \* what the last process_options returned: "none" or "Ok"
    dispatches         \* number of process_options calls made by the caller

vars == << paths, initApp, pc, i, callerApp, hostApp, boxes, hostPtr, boxed_raw,
           plugins, loaded_libraries, opens, calls, entryApp, modReturned,
           dropLog, panics, loadResult, lastBuild, heldSpecs, heldWorkers,
           worker, j, optCalls, dispatchResult, dispatches >>

loadVars == << callerApp, hostApp, boxes, hostPtr, boxed_raw, opens, calls,
               entryApp, modReturned, loadResult, i >>
callerVars == << lastBuild, heldSpecs, heldWorkers, worker >>
dispatchVars == << j, optCalls, dispatchResult, dispatches >>

----------------------------------------------------------------------------
(* Bounds of the model.                                                    *)

MaxPaths == 3       \* longest `paths` list explored
MaxHeld == 2        \* most WorkerSpec boxes, and most Worker boxes, the caller holds at once
MaxDispatch == 1    \* most process_options calls the caller makes

----------------------------------------------------------------------------
(* The dynamic modules on disk: the inputs of Library::new and lib.get.    *)
(* "A" and "B" are well-formed plugins that both register option "x";      *)
(* "N" opens but exports no `_plugin_create`; "X" cannot be opened.        *)

Files == {"A", "B", "N", "X"}

\* Library::new(path) succeeds (line 32)
CanOpen(f) == f # "X"

\* lib.get(b"_plugin_create") succeeds (line 36)
HasSymbol(f) == f \in {"A", "B"}

Opt(n, by) == [name |-> n, by |-> by]

\* the option set <$args> of the module (line 100, used at line 110)
ModuleOptions(f) ==
    IF f = "A" THEN << Opt("x", "A"), Opt("a", "A") >>
    ELSE IF f = "B" THEN << Opt("x", "B"), Opt("b", "B") >>
    ELSE << >>

\* <$args>::augment_args(app) (line 110): clap's App::arg pushes each argument
\* of the module onto the App's argument list; it reports nothing.
augment_args(app, f) == app \o ModuleOptions(f)

\* Plugin::name (line 63), as the module defines it
PluginName(f) == f

\* number of WorkerSpec boxes Plugin::get_worker_specs of the module returns (line 64)
NumSpecs(f) == IF f = "A" THEN 2 ELSE 1

\* the initial schemas a caller passes to load_plugins
InitialSchemas == { << >>, << Opt("h", "host") >> }

RECURSIVE SeqsUpTo(_, _)
SeqsUpTo(S, n) ==
    IF n = 0 THEN { << >> }
    ELSE LET shorter == SeqsUpTo(S, n - 1)
         IN  shorter \cup { Append(s, x) : s \in { t \in shorter : Len(t) = n - 1 }, x \in S }

Range(s) == { s[k] : k \in DOMAIN s }

----------------------------------------------------------------------------
(* Owned slots: a value that can be moved out, dropped or freed.           *)

Val(v) == [st |-> "value", v |-> v]
Moved == [st |-> "moved", v |-> << >>]
Dropped == [st |-> "dropped", v |-> << >>]
Freed == [st |-> "freed", v |-> << >>]
Unalloc == [st |-> "unalloc", v |-> << >>]
NoPlugin == [name |-> "-", file |-> "-", lib |-> 0]

Panic(site, name) == [site |-> site, name |-> name]

\* no Worker is being driven
NoWorker == [st |-> "none", synced |-> FALSE, out |-> "none"]

\* PluginManager::new (lines 22-27) and the entry of load_plugins (lines 90-91)
Init ==
    /\ paths \in SeqsUpTo(Files, MaxPaths)
    /\ initApp \in InitialSchemas
    /\ pc = "loop"
    /\ i = 1
    /\ callerApp = Moved
    /\ hostApp = Val(initApp)
    /\ boxes = [hostBox |-> Unalloc, modBox |-> Unalloc]
    /\ hostPtr = "none"
    /\ boxed_raw = NoPlugin
    /\ plugins = << >>
    /\ loaded_libraries = << >>
    /\ opens = << >>
    /\ calls = << >>
    /\ entryApp = << >>
    /\ modReturned = << >>
    /\ dropLog = << >>
    /\ panics = << >>
    /\ loadResult = "none"
    /\ lastBuild = << >>
    /\ heldSpecs = EmptyBag
    /\ heldWorkers = EmptyBag
    /\ worker = NoWorker
    /\ j = 1
    /\ optCalls = << >>
    /\ dispatchResult = "none"
    /\ dispatches = 0

----------------------------------------------------------------------------
(* load_plugins and load_single_plugin                                     *)

\* a loop that walks `paths` from the back
PathAtReversed(k) == paths[Len(paths) + 1 - k]

\* the element the `for path in paths` loop yields at position k (line 92)
PathAt(k) == paths[k]

\* a load that keeps the opened library in a local and never pushes it
OpenOkNoPush ==
    /\ pc = "loop"
    /\ i <= Len(paths)
    /\ CanOpen(PathAt(i))
    /\ opens' = Append(opens, PathAt(i))
    /\ entryApp' = hostApp.v
    /\ pc' = "opened"
    /\ UNCHANGED << paths, initApp, i, callerApp, hostApp, boxes, hostPtr, boxed_raw,
                    plugins, loaded_libraries, calls, modReturned, dropLog, panics,
                    loadResult >>
    /\ UNCHANGED << callerVars, dispatchVars >>

\* lines 92, 32-33: Library::new succeeds and the library is pushed
OpenOk ==
    /\ pc = "loop"
    /\ i <= Len(paths)
    /\ CanOpen(PathAt(i))
    /\ opens' = Append(opens, PathAt(i))
    /\ entryApp' = hostApp.v
    /\ loaded_libraries' = Append(loaded_libraries, [file |-> PathAt(i), id |-> i])
    /\ pc' = "opened"
    /\ UNCHANGED << paths, initApp, i, callerApp, hostApp, boxes, hostPtr, boxed_raw,
                    plugins, calls, modReturned, dropLog, panics, loadResult >>
    /\ UNCHANGED << callerVars, dispatchVars >>

\* a load that reports the failure to open and goes on with the next path
OpenFailSkips ==
    /\ pc = "loop"
    /\ i <= Len(paths)
    /\ ~CanOpen(PathAt(i))
    /\ opens' = Append(opens, PathAt(i))
    /\ entryApp' = hostApp.v
    /\ panics' = Append(panics, Panic("open", "-"))
    /\ i' = i + 1
    /\ UNCHANGED << paths, initApp, pc, callerApp, hostApp, boxes, hostPtr, boxed_raw,
                    plugins, loaded_libraries, calls, modReturned, dropLog, loadResult >>
    /\ UNCHANGED << callerVars, dispatchVars >>

\* lines 92, 32: Library::new fails and `expect` panics
OpenFail ==
    /\ pc = "loop"
    /\ i <= Len(paths)
    /\ ~CanOpen(PathAt(i))
    /\ opens' = Append(opens, PathAt(i))
    /\ entryApp' = hostApp.v
    /\ panics' = Append(panics, Panic("open", "-"))
    /\ pc' = "panicked"
    /\ UNCHANGED << paths, initApp, i, callerApp, hostApp, boxes, hostPtr, boxed_raw,
                    plugins, loaded_libraries, calls, modReturned, dropLog, loadResult >>
    /\ UNCHANGED << callerVars, dispatchVars >>

\* lines 34-37: the symbol is found
ResolveOk ==
    /\ pc = "opened"
    /\ HasSymbol(loaded_libraries[Len(loaded_libraries)].file)
    /\ pc' = "resolved"
    /\ UNCHANGED << paths, initApp, plugins, loaded_libraries, dropLog, panics >>
    /\ UNCHANGED << loadVars, callerVars, dispatchVars >>

\* lines 34-37: the symbol is missing and `expect` panics
ResolveFail ==
    /\ pc = "opened"
    /\ ~HasSymbol(loaded_libraries[Len(loaded_libraries)].file)
    /\ panics' = Append(panics, Panic("symbol", "-"))
    /\ pc' = "panicked"
    /\ UNCHANGED << paths, initApp, plugins, loaded_libraries, dropLog >>
    /\ UNCHANGED << loadVars, callerVars, dispatchVars >>

\* line 38: the schema is moved into a fresh box and the box becomes a raw pointer
BoxApp ==
    /\ pc = "resolved"
    /\ boxes' = [boxes EXCEPT !.hostBox = hostApp]
    /\ hostApp' = Moved
    /\ hostPtr' = "hostBox"
    /\ pc' = "boxed"
    /\ UNCHANGED << paths, initApp, i, callerApp, boxed_raw, plugins, loaded_libraries,
                    opens, calls, entryApp, modReturned, dropLog, panics, loadResult >>
    /\ UNCHANGED << callerVars, dispatchVars >>

\* line 39: the constructor is called with the raw pointer
Invoke ==
    /\ pc = "boxed"
    /\ calls' = Append(calls, loaded_libraries[Len(loaded_libraries)].file)
    /\ pc' = "incall"
    /\ UNCHANGED << paths, initApp, i, callerApp, hostApp, boxes, hostPtr, boxed_raw,
                    plugins, loaded_libraries, opens, entryApp, modReturned, dropLog,
                    panics, loadResult >>
    /\ UNCHANGED << callerVars, dispatchVars >>

\* lines 103-112: `_plugin_create` of the module, as declare_plugin generates it.
\* Box::from_raw(app) frees the host's box, augment_args consumes the schema, the
\* result goes into a new box; line 39 then rebinds `app` to the returned pointer.
EntryPoint ==
    /\ pc = "incall"
    /\ LET f == loaded_libraries[Len(loaded_libraries)].file
           out == augment_args(boxes.hostBox.v, f)
       IN  /\ boxes' = [hostBox |-> Freed, modBox |-> Val(out)]
           /\ modReturned' = out
           /\ boxed_raw' = [name |-> PluginName(f), file |-> f,
                            lib |-> loaded_libraries[Len(loaded_libraries)].id]
    /\ hostPtr' = "modBox"
    /\ pc' = "returned"
    /\ UNCHANGED << paths, initApp, i, callerApp, hostApp, plugins, loaded_libraries,
                    opens, calls, entryApp, dropLog, panics, loadResult >>
    /\ UNCHANGED << callerVars, dispatchVars >>

\* a load that inserts the plugin at the front of the list
PushPluginFront ==
    /\ pc = "returned"
    /\ plugins' = << boxed_raw >> \o plugins
    /\ boxed_raw' = NoPlugin
    /\ pc' = "pushed"
    /\ UNCHANGED << paths, initApp, i, callerApp, hostApp, boxes, hostPtr,
                    loaded_libraries, opens, calls, entryApp, modReturned, dropLog,
                    panics, loadResult >>
    /\ UNCHANGED << callerVars, dispatchVars >>

\* lines 41-42: the plugin is boxed again and pushed
PushPlugin ==
    /\ pc = "returned"
    /\ plugins' = Append(plugins, boxed_raw)
    /\ boxed_raw' = NoPlugin
    /\ pc' = "pushed"
    /\ UNCHANGED << paths, initApp, i, callerApp, hostApp, boxes, hostPtr,
                    loaded_libraries, opens, calls, entryApp, modReturned, dropLog,
                    panics, loadResult >>
    /\ UNCHANGED << callerVars, dispatchVars >>

\* line 45 reading the pointer of line 38, the one handed to the constructor
ReturnedAppPtrStale == "hostBox"

\* the pointer line 45 turns back into a box: the binding `app` of line 39
ReturnedAppPtr == hostPtr

\* a load that frees the returned box and goes on with the schema it was given
ReturnAppKeepsOld ==
    /\ pc = "pushed"
    /\ hostApp' = Val(entryApp)
    /\ boxes' = [boxes EXCEPT ![ReturnedAppPtr] = Freed]
    /\ hostPtr' = "none"
    /\ i' = i + 1
    /\ pc' = "loop"
    /\ UNCHANGED << paths, initApp, callerApp, boxed_raw, plugins, loaded_libraries,
                    opens, calls, entryApp, modReturned, dropLog, panics, loadResult >>
    /\ UNCHANGED << callerVars, dispatchVars >>

\* lines 45 and 93: *Box::from_raw(app) moves the schema out and frees the box;
\* load_plugins stores it in its `app` and the loop advances
ReturnApp ==
    /\ pc = "pushed"
    /\ hostApp' = boxes[ReturnedAppPtr]
    /\ boxes' = [boxes EXCEPT ![ReturnedAppPtr] = Freed]
    /\ hostPtr' = "none"
    /\ i' = i + 1
    /\ pc' = "loop"
    /\ UNCHANGED << paths, initApp, callerApp, boxed_raw, plugins, loaded_libraries,
                    opens, calls, entryApp, modReturned, dropLog, panics, loadResult >>
    /\ UNCHANGED << callerVars, dispatchVars >>

\* line 95: the loop is over, Ok((app, factory)) moves both to the caller
LoadReturn ==
    /\ pc = "loop"
    /\ i > Len(paths)
    /\ callerApp' = hostApp
    /\ hostApp' = Moved
    /\ loadResult' = "Ok"
    /\ pc' = "ready"
    /\ UNCHANGED << paths, initApp, i, boxes, hostPtr, boxed_raw, plugins,
                    loaded_libraries, opens, calls, entryApp, modReturned, dropLog, panics >>
    /\ UNCHANGED << callerVars, dispatchVars >>

\* a panic of lines 32 or 37 unwinds load_single_plugin (its `app` is dropped) and
\* load_plugins (its `factory` is dropped): the caller gets no value back
Unwind ==
    /\ pc = "panicked"
    /\ hostApp' = Dropped
    /\ loadResult' = "panic"
    /\ pc' = "dropping"
    /\ UNCHANGED << paths, initApp, i, callerApp, boxes, hostPtr, boxed_raw, plugins,
                    loaded_libraries, opens, calls, entryApp, modReturned, dropLog, panics >>
    /\ UNCHANGED << callerVars, dispatchVars >>

\* the same panic in a build with panic = "abort": the process ends, nothing is dropped
PanicAbort ==
    /\ pc = "panicked"
    /\ loadResult' = "panic"
    /\ pc' = "aborted"
    /\ UNCHANGED << paths, initApp, i, callerApp, hostApp, boxes, hostPtr, boxed_raw, plugins,
                    loaded_libraries, opens, calls, entryApp, modReturned, dropLog, panics >>
    /\ UNCHANGED << callerVars, dispatchVars >>

----------------------------------------------------------------------------
(* Drop of the PluginManager (lines 12-15): `plugins` first, element by    *)
(* element, then `loaded_libraries`.                                       *)

DropEvent(kind, id) == [kind |-> kind, id |-> id]

DropPlugin ==
    /\ pc = "dropping"
    /\ plugins # << >>
    /\ dropLog' = Append(dropLog, DropEvent("plugin", Head(plugins).lib))
    /\ plugins' = Tail(plugins)
    /\ UNCHANGED << paths, initApp, pc, loaded_libraries, panics >>
    /\ UNCHANGED << loadVars, callerVars, dispatchVars >>

\* a manager whose fields are declared the other way round: libraries go first
DropLibraryEarly ==
    /\ pc = "dropping"
    /\ loaded_libraries # << >>
    /\ dropLog' = Append(dropLog, DropEvent("library", Head(loaded_libraries).id))
    /\ loaded_libraries' = Tail(loaded_libraries)
    /\ UNCHANGED << paths, initApp, pc, plugins, panics >>
    /\ UNCHANGED << loadVars, callerVars, dispatchVars >>

DropLibrary ==
    /\ pc = "dropping"
    /\ plugins = << >>
    /\ loaded_libraries # << >>
    /\ dropLog' = Append(dropLog, DropEvent("library", Head(loaded_libraries).id))
    /\ loaded_libraries' = Tail(loaded_libraries)
    /\ UNCHANGED << paths, initApp, pc, plugins, panics >>
    /\ UNCHANGED << loadVars, callerVars, dispatchVars >>

DropDone ==
    /\ pc = "dropping"
    /\ plugins = << >>
    /\ loaded_libraries = << >>
    /\ pc' = "dropped"
    /\ UNCHANGED << paths, initApp, plugins, loaded_libraries, dropLog, panics >>
    /\ UNCHANGED << loadVars, callerVars, dispatchVars >>

----------------------------------------------------------------------------
(* The operations the owner of the returned PluginManager can perform.     *)

\* the owner drops the manager (it goes out of scope, or drop(manager))
DropManager ==
    /\ pc = "ready"
    /\ pc' = "dropping"
    /\ UNCHANGED << paths, initApp, plugins, loaded_libraries, dropLog, panics >>
    /\ UNCHANGED << loadVars, callerVars, dispatchVars >>

\* Plugin::get_worker_specs (line 64) of the plugin at position p of `plugins`:
\* fresh boxes whose code lives in that plugin's library
get_worker_specs(p) ==
    [k \in 1..NumSpecs(plugins[p].file) |-> [plugin |-> p, lib |-> plugins[p].lib, k |-> k]]

\* build() asking self.plugins.first()
BuildSourceFirst == CHOOSE p \in DOMAIN plugins : \A q \in DOMAIN plugins : p <= q

\* the plugin build() asks: self.plugins.last() (line 49)
BuildSource == Len(plugins)

\* lines 48-50, the value returned when `plugins` is not empty
BuildResult == get_worker_specs(BuildSource)

SeqToBag(s) == [x \in Range(s) |-> Cardinality({k \in DOMAIN s : s[k] = x})]

\* a build() that takes the last plugin out of the list (pop) to ask it
BuildPops ==
    /\ pc = "ready"
    /\ plugins # << >>
    /\ BagCardinality(heldSpecs) + Len(BuildResult) <= MaxHeld
    /\ lastBuild' = BuildResult
    /\ heldSpecs' = heldSpecs (+) SeqToBag(BuildResult)
    /\ plugins' = SubSeq(plugins, 1, Len(plugins) - 1)
    /\ UNCHANGED << paths, initApp, pc, loaded_libraries, dropLog, panics,
                    heldWorkers, worker >>
    /\ UNCHANGED << loadVars, dispatchVars >>

\* lines 48-50: build() on a manager that holds a plugin; the caller owns the boxes
Build ==
    /\ pc = "ready"
    /\ plugins # << >>
    /\ BagCardinality(heldSpecs) + Len(BuildResult) <= MaxHeld
    /\ lastBuild' = BuildResult
    /\ heldSpecs' = heldSpecs (+) SeqToBag(BuildResult)
    /\ UNCHANGED << paths, initApp, pc, plugins, loaded_libraries, dropLog, panics,
                    heldWorkers, worker >>
    /\ UNCHANGED << loadVars, dispatchVars >>

\* lines 48-50: build() on a manager without plugin: last() is None and unwrap panics
BuildPanic ==
    /\ pc = "ready"
    /\ plugins = << >>
    /\ panics' = Append(panics, Panic("build", "-"))
    /\ pc' = "aborted"
    /\ UNCHANGED << paths, initApp, plugins, loaded_libraries, dropLog >>
    /\ UNCHANGED << loadVars, callerVars, dispatchVars >>

\* WorkerSpec::build (line 74) on a spec the caller holds, while its library is loaded
SpecBuild ==
    /\ pc = "ready"
    /\ BagCardinality(heldWorkers) < MaxHeld
    /\ \E s \in BagToSet(heldSpecs) :
          heldWorkers' = heldWorkers (+) SetToBag({[spec |-> s, lib |-> s.lib]})
    /\ worker' = IF worker = NoWorker THEN [NoWorker EXCEPT !.st = "Unconfigured"] ELSE worker
    /\ UNCHANGED << paths, initApp, pc, plugins, loaded_libraries, dropLog, panics,
                    lastBuild, heldSpecs >>
    /\ UNCHANGED << loadVars, dispatchVars >>

\* the caller drops one Box<dyn WorkerSpec> it holds; it can do so before or after
\* it dropped the manager, the boxes are 'static (line 48)
DropSpec ==
    /\ pc \in {"ready", "dropped"}
    /\ \E s \in BagToSet(heldSpecs) : heldSpecs' = heldSpecs (-) SetToBag({s})
    /\ UNCHANGED << paths, initApp, pc, plugins, loaded_libraries, dropLog, panics,
                    lastBuild, heldWorkers, worker >>
    /\ UNCHANGED << loadVars, dispatchVars >>

\* the caller drops one Box<dyn Worker> it holds
DropWorker ==
    /\ pc \in {"ready", "dropped"}
    /\ \E w \in BagToSet(heldWorkers) : heldWorkers' = heldWorkers (-) SetToBag({w})
    /\ worker' = IF heldWorkers' = EmptyBag THEN NoWorker ELSE worker
    /\ UNCHANGED << paths, initApp, pc, plugins, loaded_libraries, dropLog, panics,
                    lastBuild, heldSpecs >>
    /\ UNCHANGED << loadVars, dispatchVars >>

----------------------------------------------------------------------------
(* The Worker capability (trait, lines 77-87). The trait fixes signatures  *)
(* only; the behaviour below is the one section 4.4 of the specification   *)
(* prescribes for an implementation: Unconfigured, Configured, Computing,  *)
(* Drained; copy_output_to outside "computed and synced" yields an empty   *)
(* output and changes nothing.                                             *)

\* a copy_output_to that hands out results whenever it is called
CopyOutcomeAlways(st, synced) == "results"

\* what copy_output_to appends to the caller's buffer (line 86)
CopyOutcome(st, synced) == IF st = "Computing" /\ synced THEN "results" ELSE "empty"

WorkerFrame ==
    /\ UNCHANGED << paths, initApp, pc, plugins, loaded_libraries, dropLog, panics,
                    lastBuild, heldSpecs, heldWorkers >>
    /\ UNCHANGED << loadVars, dispatchVars >>

\* load_block_constants (line 80)
WorkerLoadBlockConstants ==
    /\ pc = "ready"
    /\ worker.st \in {"Unconfigured", "Configured", "Drained"}
    /\ worker' = [st |-> "Configured", synced |-> FALSE, out |-> "none"]
    /\ WorkerFrame

\* calculate_hash (line 82)
WorkerCalculateHash ==
    /\ pc = "ready"
    /\ worker.st = "Configured"
    /\ worker' = [st |-> "Computing", synced |-> FALSE, out |-> "none"]
    /\ WorkerFrame

\* sync (line 83): a barrier for the work of the last calculate_hash; it returns
\* Ok, or Err on a backend fault, and then the work is not known to be complete
WorkerSync ==
    /\ pc = "ready"
    /\ worker.st # "none"
    /\ \E ok \in BOOLEAN :
          worker' = [worker EXCEPT !.synced = @ \/ (ok /\ worker.st = "Computing"),
                                   !.out = "none"]
    /\ WorkerFrame

\* copy_output_to (line 86)
WorkerCopyOutputTo ==
    /\ pc = "ready"
    /\ worker.st # "none"
    /\ LET o == CopyOutcome(worker.st, worker.synced)
       IN  worker' = IF o = "results"
                     THEN [st |-> "Drained", synced |-> FALSE, out |-> o]
                     ELSE [worker EXCEPT !.out = o]
    /\ WorkerFrame

----------------------------------------------------------------------------
(* PluginManager::process_options (lines 52-59)                            *)

\* an iterator that walks `plugins` from the back
DispatchOrderReversed(k) == Len(plugins) + 1 - k

\* the position of `plugins` that self.plugins.iter_mut() yields at step k (line 53)
DispatchOrder(k) == k

\* the plugin the panic message of line 55 names when the plugin at position p failed
PanicName(p) == plugins[p].name

\* a closure that ignores the result of process_option
ContinuesAlways(ok) == TRUE

\* whether for_each goes on after a process_option call with result ok (line 54)
Continues(ok) == ok

\* line 52: the caller calls process_options
ProcessOptionsCall ==
    /\ pc = "ready"
    /\ dispatches < MaxDispatch
    /\ dispatches' = dispatches + 1
    /\ j' = 1
    /\ optCalls' = << >>
    /\ dispatchResult' = "none"
    /\ pc' = "dispatch"
    /\ UNCHANGED << paths, initApp, plugins, loaded_libraries, dropLog, panics >>
    /\ UNCHANGED << loadVars, callerVars >>

\* lines 53-56: one turn of the closure: process_option returns Ok or Err (the
\* module and the matches decide), and on Err `expect` panics naming the plugin
ProcessOption ==
    /\ pc = "dispatch"
    /\ j <= Len(plugins)
    /\ \E ok \in BOOLEAN :
          /\ optCalls' = Append(optCalls, [idx |-> DispatchOrder(j), ok |-> ok])
          /\ IF Continues(ok)
             THEN /\ j' = j + 1
                  /\ UNCHANGED << pc, panics >>
             ELSE /\ panics' = Append(panics, Panic("process_option", PanicName(DispatchOrder(j))))
                  /\ pc' = "aborted"
                  /\ UNCHANGED j
    /\ UNCHANGED << paths, initApp, plugins, loaded_libraries, dropLog,
                    dispatchResult, dispatches >>
    /\ UNCHANGED << loadVars, callerVars >>

\* lines 57-58: the iterator is exhausted and Ok(()) is returned
ProcessOptionsReturn ==
    /\ pc = "dispatch"
    /\ j > Len(plugins)
    /\ dispatchResult' = "Ok"
    /\ pc' = "ready"
    /\ UNCHANGED << paths, initApp, plugins, loaded_libraries, dropLog, panics,
                    j, optCalls, dispatches >>
    /\ UNCHANGED << loadVars, callerVars >>

Next ==
    \/ OpenOk
    \/ OpenFail
    \/ ResolveOk
    \/ ResolveFail
    \/ BoxApp
    \/ Invoke
    \/ EntryPoint
    \/ PushPlugin
    \/ ReturnApp
    \/ LoadReturn
    \/ Unwind
    \/ PanicAbort
    \/ DropPlugin
    \/ DropLibrary
    \/ DropDone
    \/ DropManager
    \/ Build
    \/ BuildPanic
    \/ SpecBuild
    \/ DropSpec
    \/ DropWorker
    \/ WorkerLoadBlockConstants
    \/ WorkerCalculateHash
    \/ WorkerSync
    \/ WorkerCopyOutputTo
    \/ ProcessOptionsCall
    \/ ProcessOption
    \/ ProcessOptionsReturn

Spec == Init /\ [][Next]_vars

----------------------------------------------------------------------------
(* Derived notions used by the properties.                                 *)

\* ids of the libraries whose Library value has been dropped (the module is unloaded)
Released == { e.id : e \in { d \in Range(dropLog) : d.kind = "library" } }

\* ids of the libraries that define the code of some object that is still live
LiveOwners ==
    { plugins[k].lib : k \in DOMAIN plugins }
    \cup (IF boxed_raw = NoPlugin THEN {} ELSE { boxed_raw.lib })
    \cup { s.lib : s \in BagToSet(heldSpecs) }
    \cup { w.lib : w \in BagToSet(heldWorkers) }

LoadFailed == \E k \in DOMAIN panics : panics[k].site \in {"open", "symbol"}

Names(opts) == { opts[k].name : k \in DOMAIN opts }

\* two invoked entry points registered the same option name
DuplicateRegistered ==
    \E a, b \in DOMAIN calls :
        a < b /\ Names(ModuleOptions(calls[a])) \cap Names(ModuleOptions(calls[b])) # {}

\* number of places that own the schema value
Holders ==
    Cardinality({ n \in {"hostBox", "modBox"} : boxes[n].st = "value" })
    + (IF hostApp.st = "value" THEN 1 ELSE 0)
    + (IF callerApp.st = "value" THEN 1 ELSE 0)

----------------------------------------------------------------------------
(* C1 (as claimed): no Plugin, WorkerSpec or Worker is live once the       *)
(* Library of the module that defines it has been released.                *)
C1_LifetimeWithinModule == LiveOwners \cap Released = {}

(* C2: build() on a manager loaded from a non-empty list of modules        *)
(* returns exactly the worker specs of the plugin of the last path: as     *)
(* many as that module's get_worker_specs gives, all of that plugin.       *)
C2_BuildReturnsLastPluginSpecs ==
    lastBuild # << >> =>
        lastBuild = [k \in 1..NumSpecs(paths[Len(paths)]) |->
                        [plugin |-> Len(paths), lib |-> Len(paths), k |-> k]]

C2_Witness ==
    /\ lastBuild # << >>
    /\ Len(paths) = 3
    /\ paths[1] # paths[3]
    /\ paths[2] # paths[3]

(* C3: in a process_options run the calls go to plugins 1, 2, ... in       *)
(* turn; a failed call is the last call of the run, the run then ends with *)
(* exactly one panic, whose message names the plugin that failed, and does *)
(* not return Ok.                                                          *)
C3_FirstFailureStopsDispatch ==
    \A m \in DOMAIN optCalls :
        /\ optCalls[m].idx = m
        /\ m <= Len(paths)
        /\ ~optCalls[m].ok =>
              /\ m = Len(optCalls)
              /\ pc = "aborted"
              /\ dispatchResult = "none"
              /\ panics = << Panic("process_option", PluginName(paths[m])) >>

C3_Witness ==
    /\ pc = "aborted"
    /\ Len(plugins) = 3
    /\ Len(optCalls) = 2
    /\ optCalls[1].ok
    /\ ~optCalls[2].ok
    /\ plugins[1].name # plugins[2].name

(* C4: a process_options call that returns Ok has called process_option on *)
(* every loaded plugin exactly once, in load order, each call successful;  *)
(* and a run without failure is never stuck before that.                   *)
C4_DispatchCoversAllInOrder ==
    /\ dispatchResult = "Ok" =>
          /\ optCalls = [m \in 1..Len(paths) |-> [idx |-> m, ok |-> TRUE]]
          /\ pc = "ready" => \A m \in DOMAIN optCalls : plugins[optCalls[m].idx].file = paths[m]
    /\ pc = "dispatch" =>
          /\ Len(optCalls) = j - 1
          /\ j <= Len(plugins) + 1
          /\ \A m \in DOMAIN optCalls : optCalls[m].ok

C4_Witness ==
    /\ dispatchResult = "Ok"
    /\ pc = "ready"
    /\ Len(plugins) = 3
    /\ plugins[1].file # plugins[3].file

(* C5 (as claimed): a module that cannot be opened or lacks the entry      *)
(* point makes the load return an error value; it never panics.            *)
C5_LoadFailureIsReturned == ~LoadFailed

(* C6 (as claimed): after a load that failed on a missing entry point the  *)
(* caller has the schema that was passed into that load.                   *)
C6_SchemaKeptOnMissingSymbol ==
    (loadResult = "panic" /\ panics[1].site = "symbol") => callerApp = Val(entryApp)

(* C7: when the load of paths[i] fails the sequence stops there: nothing   *)
(* after paths[i] is opened, no entry point from paths[i] on is invoked,   *)
(* the modules loaded before are all still loaded when the failure is      *)
(* raised, and a library is released only by the drop of the manager.      *)
C7_LoadFailureStopsSequence ==
    /\ LoadFailed =>
          /\ pc \in {"panicked", "dropping", "dropped", "aborted"}
          /\ Len(panics) = 1
          /\ i <= Len(paths)
          /\ ~(CanOpen(paths[i]) /\ HasSymbol(paths[i]))
          /\ opens = SubSeq(paths, 1, i)
          /\ calls = SubSeq(paths, 1, i - 1)
          /\ pc = "panicked" =>
                /\ Released = {}
                /\ Len(plugins) = i - 1
                /\ \A k \in 1..(i - 1) : loaded_libraries[k].id = k /\ plugins[k].lib = k
    /\ Released # {} => pc \in {"dropping", "dropped"}

C7_Witness ==
    /\ pc = "panicked"
    /\ i = 2
    /\ Len(paths) = 3
    /\ Len(plugins) = 1

(* C8: the modules are opened and their entry points invoked one after the *)
(* other in the order of paths, each once; an entry point is invoked only  *)
(* when every earlier load has pushed its plugin; after a successful run   *)
(* the plugin list follows paths.                                          *)
C8_SequentialInOrder ==
    /\ Len(opens) <= Len(paths)
    /\ opens = SubSeq(paths, 1, Len(opens))
    /\ calls = SubSeq(paths, 1, Len(calls))
    /\ Len(calls) <= Len(opens)
    /\ Len(opens) <= Len(calls) + 1
    /\ pc = "incall" => (Len(calls) = i /\ Len(plugins) = i - 1 /\ Len(opens) = i)
    /\ (loadResult = "Ok" /\ pc = "ready") =>
          /\ calls = paths
          /\ Len(plugins) = Len(paths)
          /\ \A k \in DOMAIN plugins : plugins[k].file = paths[k]

C8_Witness ==
    /\ loadResult = "Ok"
    /\ pc = "ready"
    /\ Len(paths) = 3
    /\ paths[1] # paths[3]

(* C9: while the modules are loaded the schema has exactly one holder;     *)
(* during the call of the entry point the host's own slot is moved out and *)
(* the only live box is the one handed over; after the call the host's     *)
(* pointer designates the box the module returned, the box it handed over  *)
(* is gone, and the value the host takes back is the one the module        *)
(* returned.                                                               *)
C9_SchemaHasOneHolder ==
    /\ pc \in {"loop", "opened", "resolved", "boxed", "incall", "returned", "pushed",
               "panicked", "ready"} => Holders = 1
    /\ hostApp.st \in {"value", "moved", "dropped"}
    /\ pc = "incall" => (hostApp = Moved /\ boxes.hostBox.st = "value" /\ boxes.modBox.st # "value")
    /\ pc \in {"returned", "pushed"} =>
          (hostPtr = "modBox" /\ boxes.modBox = Val(modReturned) /\ boxes.hostBox = Freed)
    /\ (pc = "loop" /\ i > 1) => hostApp = Val(modReturned)

C9_Witness ==
    /\ pc = "loop"
    /\ i = 3
    /\ hostApp = Val(modReturned)
    /\ Len(modReturned) > Len(initApp)
    /\ boxes.hostBox = Freed
    /\ boxes.modBox = Freed

(* C10 (as claimed): when two loaded modules register the same option      *)
(* name the duplicate is surfaced as an error at merge time, so a load     *)
(* never returns Ok after a duplicate registration.                        *)
C10_DuplicateIsSurfaced == loadResult = "Ok" => ~DuplicateRegistered

----------------------------------------------------------------------------
\* the schema after the entry points of the first k paths have extended schema s
RECURSIVE Accumulated(_, _)
Accumulated(s, k) == IF k = 0 THEN s ELSE augment_args(Accumulated(s, k - 1), paths[k])

LibIds == { loaded_libraries[k].id : k \in DOMAIN loaded_libraries }

(* C11: after load_plugins returned Ok the plugin list and the library     *)
(* list both have one entry per path, and the plugin at each position is   *)
(* the one the entry point of the library at that position returned; a     *)
(* path listed twice gives two libraries and two plugins.                  *)
C11_OnePluginPerModule ==
    (loadResult = "Ok" /\ pc \in {"ready", "dispatch", "aborted"}) =>
        /\ Len(plugins) = Len(paths)
        /\ Len(loaded_libraries) = Len(paths)
        /\ \A k \in DOMAIN paths :
              /\ loaded_libraries[k] = [file |-> paths[k], id |-> k]
              /\ plugins[k] = [name |-> PluginName(paths[k]), file |-> paths[k], lib |-> k]

C11_Witness ==
    /\ loadResult = "Ok"
    /\ pc = "ready"
    /\ Len(paths) = 3
    /\ paths[1] = paths[3]
    /\ paths[1] # paths[2]
    /\ plugins[1].lib # plugins[3].lib

(* C12: once load_plugins has returned, no step of build() or of           *)
(* process_options() changes the plugin list or the library list, and the  *)
(* library list loses an entry only inside the drop of the manager, after  *)
(* its plugins are gone.                                                   *)
C12_ListsFrozenAfterLoad ==
    [][ /\ pc \in {"ready", "dispatch"} /\ pc' \in {"ready", "dispatch", "aborted"} =>
            /\ plugins' = plugins
            /\ loaded_libraries' = loaded_libraries
        /\ Len(loaded_libraries') < Len(loaded_libraries) =>
            /\ pc = "dropping"
            /\ plugins = << >> ]_vars

C12_Witness ==
    /\ pc = "ready"
    /\ dispatchResult = "Ok"
    /\ lastBuild # << >>
    /\ Len(plugins) = 3
    /\ Len(loaded_libraries) = 3

(* C14: the entry point of the first path receives the caller's schema,    *)
(* the entry point of every later path receives exactly what the entry     *)
(* point before it returned, and load_plugins returns what the last entry  *)
(* point returned, or the caller's schema untouched for an empty list.     *)
C14_SchemaThreaded ==
    /\ pc = "incall" =>
          /\ boxes.hostBox = Val(IF i = 1 THEN initApp ELSE modReturned)
          /\ boxes.hostBox.v = Accumulated(initApp, i - 1)
    /\ pc = "returned" => modReturned = Accumulated(initApp, i)
    /\ loadResult = "Ok" =>
          /\ callerApp = Val(IF Len(paths) = 0 THEN initApp ELSE modReturned)
          /\ callerApp.v = Accumulated(initApp, Len(paths))

C14_Witness ==
    /\ pc = "incall"
    /\ i = 3
    /\ initApp # << >>
    /\ Len(boxes.hostBox.v) > Len(initApp)

(* C15: in every drop of a PluginManager, by its owner or by the unwinding *)
(* of a failed load, all plugins are destroyed before the first library is *)
(* released.                                                               *)
C15_PluginsBeforeLibraries ==
    /\ Released # {} => (plugins = << >> /\ boxed_raw = NoPlugin)
    /\ \A a, b \in DOMAIN dropLog :
          (dropLog[a].kind = "library" /\ dropLog[b].kind = "plugin") => b < a

C15_Witness ==
    /\ loadResult = "panic"
    /\ Len(dropLog) = 4
    /\ dropLog[2].kind = "plugin"
    /\ dropLog[3].kind = "library"

(* C16: while modules are loaded, the library of a module is in the        *)
(* library list before its entry point is resolved or invoked: every       *)
(* plugin's library is in the list, the list is as long as the plugin list *)
(* or one longer, and it is one longer from the open to the push.          *)
C16_LibraryPushedFirst ==
    pc \in {"loop", "opened", "resolved", "boxed", "incall", "returned", "pushed",
            "panicked", "ready"} =>
        /\ \A k \in DOMAIN plugins : plugins[k].lib \in LibIds
        /\ boxed_raw # NoPlugin => boxed_raw.lib \in LibIds
        /\ Len(plugins) <= Len(loaded_libraries)
        /\ Len(loaded_libraries) <= Len(plugins) + 1
        /\ Len(calls) <= Len(loaded_libraries)
        /\ pc \in {"opened", "resolved", "boxed", "incall", "returned"} =>
              /\ Len(loaded_libraries) = Len(plugins) + 1
              /\ loaded_libraries[Len(loaded_libraries)] = [file |-> paths[i], id |-> i]

C16_Witness ==
    /\ pc = "incall"
    /\ Len(plugins) = 2
    /\ Len(loaded_libraries) = 3

(* C17 (as claimed): build() never panics on a manager load_plugins        *)
(* returned, the one of an empty list of paths included.                   *)
C17_BuildNeverPanics == \A k \in DOMAIN panics : panics[k].site # "build"

\* the transitions of the Worker cycle
WorkerCycle ==
    { << "Unconfigured", "Configured" >>, << "Configured", "Computing" >>,
      << "Computing", "Drained" >>, << "Drained", "Configured" >> }

(* C13: a Worker changes state only along Unconfigured -> Configured ->    *)
(* Computing -> Drained -> Configured (or by being built or dropped), and  *)
(* every copy_output_to has a defined outcome: the results, leaving the    *)
(* worker Drained, when it follows a successful sync after a               *)
(* calculate_hash; an empty output, leaving the state as it is, in every   *)
(* other case.                                                             *)
C13_WorkerCycle ==
    [][ /\ (worker'.st # worker.st /\ worker.st # "none" /\ worker'.st # "none") =>
              << worker.st, worker'.st >> \in WorkerCycle
        /\ (worker.st = "none" /\ worker'.st # "none") => worker'.st = "Unconfigured"
        /\ (worker'.out # "none" /\ worker' # worker) =>
              IF worker.st = "Computing" /\ worker.synced
              THEN worker'.out = "results" /\ worker'.st = "Drained"
              ELSE worker'.out = "empty" /\ worker'.st = worker.st ]_vars

C13_Witness ==
    /\ worker.st = "Drained"
    /\ worker.out = "empty"
    /\ pc = "ready"
====
